---- MODULE Spec2Model ----
(***************************************************************************)
(* Model of the Elvin-Cogs plugins.                                        *)
(*                                                                         *)
(*   PickerWheel (src/pickerwheel/pickerwheel.py): the spin command, the   *)
(*   wheel animation renderer _make_wheel_gif and the URL-keyed image      *)
(*   cache of _fetch_image.                                                *)
(*   RadioBrowser (src/radiobrowser/radiobrowser.py): radio search, radio  *)
(*   pick and radio random with the per-user search cache.                 *)
(*                                                                         *)
(* A command invocation is a coroutine: the code between two awaits that   *)
(* suspend runs atomically on the event loop, so one action is one such    *)
(* stretch of a handler.                                                   *)
(*                                                                         *)
(* Angles are exact rationals.  For a render of n slices and `frames`      *)
(* frames every angle the code computes is a whole number of ticks, where  *)
(* one degree is TicksPerDeg(n, frames) = 2 * n * (frames - 1) ticks.      *)
(* The code computes the same values in IEEE doubles; its rounding error   *)
(* (about 1e-13 degrees at these magnitudes) is not modelled.              *)
(***************************************************************************)
EXTENDS Integers, Sequences, FiniteSets, TLC

VARIABLES
    wheels,        \* config "wheels": wheel name -> sequence of labels
    wheel_images,  \* config "wheel_images": wheel name -> (label -> URL)
    img_cache,     \* PickerWheel._img_cache: URL -> decoded image
    requests,      \* HTTP GETs issued by _fetch_image, counted per URL
    task,          \* the spin invocations (coroutines), by task id
    search_cache,  \* RadioBrowser._search_cache: user id -> station list
    radio,         \* the radio command invocations, by task id
    last_good,     \* history: per user, data of the last search that returned stations
    cmds,           \* the wheel mutation commands (coroutines), by task id
    stored0        \* history: the stored wheels map before any command ran

vars == <<wheels, wheel_images, img_cache, requests, task, search_cache, radio, last_good,
          cmds, stored0>>

wheelVars == <<wheels, wheel_images, img_cache, requests, task>>
radioVars == <<search_cache, radio, last_good>>
cmdVars == <<cmds, stored0>>

(***************************************************************************)
(* Bounds of the model.                                                    *)
(***************************************************************************)
MaxLabels == 3      \* longest wheel
MaxFrames == 3      \* largest requested frame count
MaxResults == 2     \* longest station list an endpoint answers with
MaxStored == 1      \* longest option list stored before the mutation commands run
MaxFields == 1      \* most comma/semicolon separated fields in raw_items

(***************************************************************************)
(* Program constants.                                                      *)
(***************************************************************************)
size == 500         \* frame edge in pixels
rotations == 3      \* extra full turns
PointerDeg == 270   \* 12 o'clock in PIL's angle convention
FullTurn == 360
TruncLen == 12      \* label budget in characters
DefaultDuration == 3

None == "None"
Ellipsis == "..."   \* stands for the one character U+2026

Tasks == {"t1", "t2"}
URLs == {"u1", "u2"}
WheelNames == {"food"}
ArgNames == WheelNames \cup {"nope"}
Durations == {0, DefaultDuration}   \* duration is any float the user types
FrameArgs == -1..MaxFrames   \* frames is any int the user types

Alphabet == <<"a", "b", "c", "d", "e", "f", "g", "h", "i", "j", "k", "l", "m", "n">>
LabelLens == {TruncLen, TruncLen + 1}
Lab(k) == SubSeq(Alphabet, 1, k)
Labels == {Lab(k) : k \in LabelLens}

SeqsUpTo(S, n) == UNION {[1..k -> S] : k \in 0..n}

(***************************************************************************)
(* PickerWheel: geometry of _make_wheel_gif, in ticks.                     *)
(***************************************************************************)
TicksPerDeg(n, frames) == 2 * n * (frames - 1)

\* sector = 360.0 / len(options)
sector(n, frames) == (FullTurn * TicksPerDeg(n, frames)) \div n

\* mutant: the half sector is forgotten, mid_deg = winner_idx * sector
mid_deg_start(winner_idx, n, frames) == winner_idx * sector(n, frames)

\* mid_deg = (winner_idx + 0.5) * sector
mid_deg(winner_idx, n, frames) == ((2 * winner_idx + 1) * sector(n, frames)) \div 2

\* mutant: the modulo is forgotten, delta = 270 - mid_deg
delta_nomod(winner_idx, n, frames) ==
    PointerDeg * TicksPerDeg(n, frames) - mid_deg(winner_idx, n, frames)

\* delta = (270 - mid_deg) % 360
delta(winner_idx, n, frames) ==
    (PointerDeg * TicksPerDeg(n, frames) - mid_deg(winner_idx, n, frames))
        % (FullTurn * TicksPerDeg(n, frames))

\* final_offset = rotations * 360 + delta
final_offset(winner_idx, n, frames) ==
    rotations * FullTurn * TicksPerDeg(n, frames) + delta(winner_idx, n, frames)

\* mutant: the ease runs backwards, t = 1 - frame / (frames - 1)
offset_backwards(frame, winner_idx, n, frames) ==
    ((frames - 1 - frame) * final_offset(winner_idx, n, frames)) \div (frames - 1)

\* t = frame / (frames - 1); offset = t * final_offset
offset(frame, winner_idx, n, frames) ==
    (frame * final_offset(winner_idx, n, frames)) \div (frames - 1)

\* start = idx * sector + offset
SliceStart(idx, frame, winner_idx, n, frames) ==
    idx * sector(n, frames) + offset(frame, winner_idx, n, frames)

\* end = start + sector
SliceEnd(idx, frame, winner_idx, n, frames) ==
    SliceStart(idx, frame, winner_idx, n, frames) + sector(n, frames)

\* ang = radians((start + end) / 2): the angle the label is drawn at
SliceAng(idx, frame, winner_idx, n, frames) ==
    (SliceStart(idx, frame, winner_idx, n, frames)
       + SliceEnd(idx, frame, winner_idx, n, frames)) \div 2

\* mutant: the comparison is strict, len(opt) < 12
SliceLabel_strict(opt) ==
    IF Len(opt) < TruncLen THEN opt ELSE SubSeq(opt, 1, TruncLen) \o <<Ellipsis>>

\* label = opt if len(opt) <= 12 else opt[:12] + "…"
SliceLabel(opt) ==
    IF Len(opt) <= TruncLen THEN opt ELSE SubSeq(opt, 1, TruncLen) \o <<Ellipsis>>

\* colors = self._get_colors(len(options)): one colour per slice
get_colors(n) == [i \in 1..n |-> [kind |-> "color", hue |-> i - 1, of |-> n]]

\* img_map.get(opt)
MapGet(m, k) == IF k \in DOMAIN m THEN m[k] ELSE None

\* all_imgs.get(wheel_name, {})
MapGetOr(m, k, d) == IF k \in DOMAIN m THEN m[k] ELSE d

EmptyMap == [x \in {} |-> None]

\* the image a URL decodes to
Img(url) == [kind |-> "image", url |-> url]

Min(a, b) == IF a < b THEN a ELSE b

(***************************************************************************)
(* PickerWheel: the spin coroutine.                                        *)
(***************************************************************************)
NoTask ==
    [pc |-> "none", name |-> None, frames |-> 0, duration |-> 0,
     opts |-> <<>>, winner_idx |-> 0, winner |-> <<>>, img_map |-> EmptyMap,
     colors |-> <<>>, frame |-> 0, idx |-> 0, im |-> <<>>, imgs |-> <<>>,
     url |-> None, sent |-> <<>>, error |-> None]

Invocation(name, frames, duration) ==
    [NoTask EXCEPT !.pc = "invoked", !.name = name, !.frames = frames,
                   !.duration = duration]

\* an exception leaves _make_wheel_gif and spin: nothing is sent by spin
Raise(r, exc) == [r EXCEPT !.pc = "raised", !.error = exc]

\* one slice drawn into the current frame, with its label
DrawSlice(r, fill) ==
    LET n == Len(r.opts)
        opt == r.opts[r.idx + 1]
    IN [r EXCEPT
          !.im = Append(@,
                   [start |-> SliceStart(r.idx, r.frame, r.winner_idx, n, r.frames),
                    end   |-> SliceEnd(r.idx, r.frame, r.winner_idx, n, r.frames),
                    ang   |-> SliceAng(r.idx, r.frame, r.winner_idx, n, r.frames),
                    fill  |-> fill,
                    label |-> SliceLabel(opt)]),
          !.idx = @ + 1]

\* mutant: the frame is appended only from the second iteration on
AppendFrame_skipfirst(r) ==
    [r EXCEPT
       !.imgs = IF r.frame = 0 THEN @
                ELSE Append(@, [size |-> <<size, size>>,
                                frame |-> r.frame,
                                offset |-> offset(r.frame, r.winner_idx, Len(r.opts), r.frames),
                                slices |-> r.im]),
       !.frame = @ + 1, !.idx = 0, !.im = <<>>]

\* imgs.append(im), and the next iteration of the frame loop
AppendFrame(r) ==
    [r EXCEPT
       !.imgs = Append(@, [size |-> <<size, size>>,
                           frame |-> r.frame,
                           offset |-> offset(r.frame, r.winner_idx, Len(r.opts), r.frames),
                           slices |-> r.im]),
       !.frame = @ + 1, !.idx = 0, !.im = <<>>]

\* imageio.mimsave(bio, imgs, format="GIF", duration=duration / frames), then
\* spin's discord.File and ctx.send.  duration / frames divides by zero for
\* frames = 0; the encoder rejects an empty frame list and takes any frame
\* time >= 0.
Encode(r) ==
    IF r.frames = 0 THEN Raise(r, "ZeroDivisionError")
    ELSE IF r.imgs = <<>> THEN Raise(r, "EncodingFailure")
    ELSE [r EXCEPT !.pc = "done",
                   !.sent = <<[content |-> "stops on", wheel |-> r.name,
                               winner |-> r.winner,
                               file |-> <<[imgs |-> r.imgs,
                                           frame_time |-> <<r.duration, r.frames>>]>>]>>]

\* mutant: _fetch_image without its cache lookup, every call goes to the network
RECURSIVE RenderFrom_nolookup(_, _)
RenderFrom_nolookup(r, cache) ==
    IF r.frame >= r.frames THEN Encode(r)
    ELSE IF r.frames - 1 = 0 THEN Raise(r, "ZeroDivisionError")
    ELSE IF r.idx >= Min(Len(r.opts), Len(r.colors))
         THEN RenderFrom_nolookup(AppendFrame(r), cache)
    ELSE LET url == MapGet(r.img_map, r.opts[r.idx + 1])
         IN IF url # None
            THEN [r EXCEPT !.pc = "fetch", !.url = url]
            ELSE RenderFrom_nolookup(DrawSlice(r, r.colors[r.idx + 1]), cache)

\* the frame loop and the slice loop, from (r.frame, r.idx) up to the next
\* await that suspends (a cache miss in _fetch_image) or to the end
RECURSIVE RenderFrom(_, _)
RenderFrom(r, cache) ==
    IF r.frame >= r.frames THEN Encode(r)
    ELSE IF r.frames - 1 = 0 THEN Raise(r, "ZeroDivisionError")
    ELSE IF r.idx >= Min(Len(r.opts), Len(r.colors))
         THEN RenderFrom(AppendFrame(r), cache)
    ELSE LET url == MapGet(r.img_map, r.opts[r.idx + 1])
         IN IF url # None
            THEN IF url \in DOMAIN cache
                 THEN RenderFrom(DrawSlice(r, cache[url]), cache)
                 ELSE [r EXCEPT !.pc = "fetch", !.url = url]
            ELSE RenderFrom(DrawSlice(r, r.colors[r.idx + 1]), cache)

\* a coroutine's stretch ended in state r: a cache miss issued one HTTP GET
Resume(t, r) ==
    /\ task' = [task EXCEPT ![t] = r]
    /\ requests' = IF r.pc = "fetch"
                   THEN [requests EXCEPT ![r.url] = @ + 1]
                   ELSE requests

\* spin, up to the call of _make_wheel_gif
SpinStart(t) ==
    /\ task[t].pc = "invoked"
    /\ \/ /\ task[t].name \notin DOMAIN wheels
          /\ task' = [task EXCEPT ![t].pc = "done",
                                  ![t].sent = <<[content |-> "No wheel named",
                                                 wheel |-> task[t].name,
                                                 winner |-> <<>>, file |-> <<>>]>>]
       \/ /\ task[t].name \in DOMAIN wheels
          /\ Len(wheels[task[t].name]) < 2
          /\ task' = [task EXCEPT ![t].pc = "done",
                                  ![t].sent = <<[content |-> "Need at least two options to spin.",
                                                 wheel |-> task[t].name,
                                                 winner |-> <<>>, file |-> <<>>]>>]
       \/ /\ task[t].name \in DOMAIN wheels
          /\ Len(wheels[task[t].name]) >= 2
          /\ \E winner_idx \in 0..(Len(wheels[task[t].name]) - 1) :
                task' = [task EXCEPT ![t].pc = "render",
                                     ![t].opts = wheels[task[t].name],
                                     ![t].winner_idx = winner_idx,
                                     ![t].winner = wheels[task[t].name][winner_idx + 1]]
    /\ UNCHANGED <<wheels, wheel_images, img_cache, requests, radioVars, cmdVars>>

\* _make_wheel_gif from its first line to its first suspension or its end
SpinRender(t) ==
    /\ task[t].pc = "render"
    /\ Resume(t, RenderFrom([task[t] EXCEPT
                                 !.colors = get_colors(Len(task[t].opts)),
                                 !.img_map = MapGetOr(wheel_images, task[t].name, EmptyMap),
                                 !.imgs = <<>>],
                             img_cache))
    /\ UNCHANGED <<wheels, wheel_images, img_cache, radioVars, cmdVars>>

\* _fetch_image resumes with the response: the image is cached and returned
FetchOk(t) ==
    /\ task[t].pc = "fetch"
    /\ img_cache' = [u \in DOMAIN img_cache \cup {task[t].url} |->
                        IF u = task[t].url THEN Img(u) ELSE img_cache[u]]
    /\ Resume(t, RenderFrom(DrawSlice([task[t] EXCEPT !.pc = "render", !.url = None],
                                       Img(task[t].url)),
                             img_cache'))
    /\ UNCHANGED <<wheels, wheel_images, radioVars, cmdVars>>

\* _fetch_image resumes with a network error or undecodable data
FetchFail(t) ==
    /\ task[t].pc = "fetch"
    /\ task' = [task EXCEPT ![t] = Raise(task[t], "ImageFetchFailure")]
    /\ UNCHANGED <<wheels, wheel_images, img_cache, requests, radioVars, cmdVars>>

NextWheel == \E t \in Tasks : SpinStart(t) \/ SpinRender(t) \/ FetchOk(t) \/ FetchFail(t)

(***************************************************************************)
(* RadioBrowser: radio search, radio pick, radio random.                   *)
(***************************************************************************)
RTasks == {"r1", "r2"}
Users == {"alice", "bob"}
Stations == {"s1", "s2"}

API_BASE == "https://api.radio-browser.info/json"
WS_BASE == "https://www.radio-browser.info/webservice/json"

\* mutant: the fallback is tried first
Bases_swapped == <<WS_BASE, API_BASE>>

\* for base in (self.API_BASE, self.WS_BASE)
Bases == <<API_BASE, WS_BASE>>

\* A JSON value an endpoint answers with: null, or a container with items
\* (search: the station list; random: the station object, empty or not).
\* A station list names no station twice.
StationLists == {l \in SeqsUpTo(Stations, MaxResults) :
                   \A a, b \in DOMAIN l : a # b => l[a] # l[b]}

JsonValues == {[null |-> TRUE, items |-> <<>>]}
                \cup {[null |-> FALSE, items |-> l] : l \in StationLists}

\* What one GET comes back with: an exception (status 0), a non-200 status,
\* or 200 with a body that resp.json() parses (parse) or raises on.
Responses == {[status |-> 0, parse |-> FALSE, body |-> [null |-> TRUE, items |-> <<>>]],
              [status |-> 500, parse |-> FALSE, body |-> [null |-> TRUE, items |-> <<>>]],
              [status |-> 200, parse |-> FALSE, body |-> [null |-> TRUE, items |-> <<>>]]}
               \cup {[status |-> 200, parse |-> TRUE, body |-> j] : j \in JsonValues}

\* resp.status == 200 and resp.text(), resp.json() raise nothing
Answered(resp) == resp.status = 200 /\ resp.parse

\* Python's truth value of a JSON value: `not data`
Falsy(j) == j.null \/ j.items = <<>>

IdleRadio ==
    [pc |-> "idle", cmd |-> None, user |-> None, number |-> 0, i |-> 0,
     contacted |-> <<>>, failed |-> <<>>, answered |-> <<>>,
     reply |-> None, station |-> None]

\* the coroutine issues its GET to Bases[i] and suspends
Contact(r, i) == [r EXCEPT !.pc = "await", !.i = i, !.contacted = Append(@, Bases[i])]

\* ctx.send(...): the command ends with one reply
Reply(r, kind, station) == [r EXCEPT !.pc = "done", !.reply = kind, !.station = station]

\* mutant: the empty-result check is dropped, every parsed answer is cached
CacheAfterSearch_noguard(cache, user, data) ==
    IF data.null THEN cache
    ELSE [u \in DOMAIN cache \cup {user} |-> IF u = user THEN data.items ELSE cache[u]]

\* radio_search after its loop: self._search_cache[ctx.author.id] = data,
\* unless data is None or empty
CacheAfterSearch(cache, user, data) ==
    IF data.null THEN cache
    ELSE IF Falsy(data) THEN cache
    ELSE [u \in DOMAIN cache \cup {user} |-> IF u = user THEN data.items ELSE cache[u]]

\* radio_search after its loop: the message sent
SearchReply(r, data) ==
    IF data.null THEN Reply(r, "Could not reach Radio Browser API", None)
    ELSE IF Falsy(data) THEN Reply(r, "No stations found", None)
    ELSE Reply(r, "Results", None)

\* radio_random after its loop
RandomReply(r, station) ==
    IF Falsy(station) THEN Reply(r, "Could not fetch a random station", None)
    ELSE Reply(r, "Random Radio Station", station.items[1])

\* radio_pick: cache = self._search_cache.get(ctx.author.id), and the checks
PickReply(r, cache) ==
    IF r.user \notin DOMAIN cache \/ cache[r.user] = <<>>
    THEN Reply(r, "You have no recent search", None)
    ELSE IF ~(1 <= r.number /\ r.number <= Len(cache[r.user]))
    THEN Reply(r, "Pick a number between", None)
    ELSE Reply(r, "Station", cache[r.user][r.number])

JNull == [null |-> TRUE, items |-> <<>>]

Invoke(cmd, user, number) ==
    [IdleRadio EXCEPT !.cmd = cmd, !.user = user, !.number = number]

\* radio search <args>: up to the first GET
RadioSearch(t) ==
    /\ radio[t].pc \in {"idle", "done"}
    /\ \E user \in Users :
          \/ radio' = [radio EXCEPT ![t] =
                          Reply(Invoke("search", user, 0),
                                "Please provide something to search for", None)]
          \/ radio' = [radio EXCEPT ![t] = Contact(Invoke("search", user, 0), 1)]
    /\ UNCHANGED <<wheelVars, cmdVars, search_cache, last_good>>

\* radio random: up to the first GET
RadioRandom(t) ==
    /\ radio[t].pc \in {"idle", "done"}
    /\ \E user \in Users :
          radio' = [radio EXCEPT ![t] = Contact(Invoke("random", user, 0), 1)]
    /\ UNCHANGED <<wheelVars, cmdVars, search_cache, last_good>>

\* radio pick <number>
RadioPick(t) ==
    /\ radio[t].pc \in {"idle", "done"}
    /\ \E user \in Users, number \in 0..(MaxResults + 1) :
          radio' = [radio EXCEPT ![t] = PickReply(Invoke("pick", user, number), search_cache)]
    /\ UNCHANGED <<wheelVars, cmdVars, search_cache, last_good>>

\* the GET to Bases[i] answered 200 with JSON: break, then the code after the loop
RadioAnswer(t) ==
    /\ radio[t].pc = "await"
    /\ \E resp \in Responses :
          /\ Answered(resp)
          /\ LET r == [radio[t] EXCEPT !.answered = <<[base |-> Bases[radio[t].i],
                                                       null |-> resp.body.null,
                                                       falsy |-> Falsy(resp.body)]>>]
             IN IF r.cmd = "search"
                THEN /\ radio' = [radio EXCEPT ![t] = SearchReply(r, resp.body)]
                     /\ search_cache' = CacheAfterSearch(search_cache, r.user, resp.body)
                     /\ last_good' =
                           IF resp.body.items # <<>>
                           THEN [u \in DOMAIN last_good \cup {r.user} |->
                                    IF u = r.user THEN resp.body.items ELSE last_good[u]]
                           ELSE last_good
                ELSE /\ radio' = [radio EXCEPT ![t] = RandomReply(r, resp.body)]
                     /\ UNCHANGED <<search_cache, last_good>>
    /\ UNCHANGED <<wheelVars, cmdVars>>

\* the GET to Bases[i] failed (non-200 status, or an exception): the loop goes
\* on to the next base, or ends with data = None
RadioFailure(t) ==
    /\ radio[t].pc = "await"
    /\ \E resp \in Responses :
          /\ ~Answered(resp)
          /\ LET r == [radio[t] EXCEPT !.failed = Append(@, Bases[radio[t].i])]
             IN IF r.i < Len(Bases)
                THEN radio' = [radio EXCEPT ![t] = Contact(r, r.i + 1)]
                ELSE IF r.cmd = "search"
                THEN radio' = [radio EXCEPT ![t] = SearchReply(r, JNull)]
                ELSE radio' = [radio EXCEPT ![t] = RandomReply(r, JNull)]
    /\ UNCHANGED <<wheelVars, cmdVars, search_cache, last_good>>

NextRadio ==
    \E t \in RTasks :
        RadioSearch(t) \/ RadioRandom(t) \/ RadioPick(t) \/ RadioAnswer(t) \/ RadioFailure(t)

(***************************************************************************)
(* PickerWheel: create, delete, add, remove, clear.                        *)
(*                                                                         *)
(* Each handler awaits config.guild(...).wheels(), which hands it a copy   *)
(* of the whole stored map, changes the copy, and awaits wheels.set(copy), *)
(* which replaces the whole stored map.  The store belongs to the host     *)
(* framework; set is awaited and other coroutines run before its write     *)
(* takes effect.                                                           *)
(***************************************************************************)
CTasks == {"c1", "c2"}
CmdKinds == {"create", "delete", "add", "remove", "clear"}
CmdNames == {"food", "Food", "soup"}
Blank == <<" ">>

\* name.lower()
Lower(name) == IF name = "Food" THEN "food" ELSE name

\* the fields re.split(r"[;,]", raw_items) yields: labels and blank fields
RawItems == SeqsUpTo(Labels \cup {Blank}, MaxFields) \ {<<>>}

\* p.strip(), for a field that is a label or blank
Strip(p) == IF p = Blank THEN <<>> ELSE p

\* [p.strip() for p in re.split(r"[;,]", raw_items) if p.strip()]
RECURSIVE Parts(_)
Parts(fields) ==
    IF fields = <<>> THEN <<>>
    ELSE IF Strip(Head(fields)) = <<>> THEN Parts(Tail(fields))
    ELSE <<Strip(Head(fields))>> \o Parts(Tail(fields))

\* wheels[key] = value
MapPut(m, key, value) ==
    [k \in DOMAIN m \cup {key} |-> IF k = key THEN value ELSE m[k]]

\* wheels.pop(name)
MapPop(m, key) == [k \in DOMAIN m \ {key} |-> m[k]]

\* opts.pop(index - 1)
SeqPop(opts, index) ==
    [i \in 1..(Len(opts) - 1) |-> IF i < index THEN opts[i] ELSE opts[i + 1]]

\* a handler's outcome on the copy m: rejected (ok = FALSE, nothing to set)
\* or the changed copy to set and the message sent after the set
Rejected(m, reply) == [ok |-> FALSE, map |-> m, reply |-> reply]
Accepted(m, reply) == [ok |-> TRUE, map |-> m, reply |-> reply]

create(c, m) ==
    IF Lower(c.name) \in DOMAIN m THEN Rejected(m, "already exists")
    ELSE Accepted(MapPut(m, Lower(c.name), <<>>), "Created wheel")

delete(c, m) ==
    IF Lower(c.name) \notin DOMAIN m THEN Rejected(m, "No wheel named")
    ELSE Accepted(MapPop(m, Lower(c.name)), "Deleted wheel")

add(c, m) ==
    IF Lower(c.name) \notin DOMAIN m THEN Rejected(m, "No wheel named")
    ELSE Accepted(MapPut(m, Lower(c.name), m[Lower(c.name)] \o Parts(c.raw_items)),
                  "Added")

remove(c, m) ==
    IF Lower(c.name) \notin DOMAIN m THEN Rejected(m, "No wheel named")
    ELSE IF c.index < 1 \/ c.index > Len(m[Lower(c.name)]) THEN Rejected(m, "Invalid index")
    ELSE Accepted(MapPut(m, Lower(c.name), SeqPop(m[Lower(c.name)], c.index)), "Removed")

clear(c, m) ==
    IF Lower(c.name) \notin DOMAIN m THEN Rejected(m, "No wheel named")
    ELSE Accepted(MapPut(m, Lower(c.name), <<>>), "Cleared wheel")

\* the handler of command c, run on the copy m of the stored map
Handle(c, m) ==
    CASE c.kind = "create" -> create(c, m)
      [] c.kind = "delete" -> delete(c, m)
      [] c.kind = "add"    -> add(c, m)
      [] c.kind = "remove" -> remove(c, m)
      [] c.kind = "clear"  -> clear(c, m)

NoCmd ==
    [pc |-> "none", kind |-> None, name |-> None, raw_items |-> <<>>, index |-> 0,
     local |-> EmptyMap, ok |-> FALSE, reply |-> None]

Command(kind, name, raw_items, index) ==
    [NoCmd EXCEPT !.pc = "invoked", !.kind = kind, !.name = name,
                  !.raw_items = raw_items, !.index = index]

Commands ==
    {Command(kind, name, <<>>, 0) : kind \in {"create", "delete", "clear"}, name \in CmdNames}
      \cup {Command("add", name, raw, 0) : name \in CmdNames, raw \in RawItems}
      \cup {Command("remove", name, <<>>, index) :
              name \in CmdNames, index \in 0..(MaxStored + MaxFields)}

\* the handler from the return of wheels() to the call of wheels.set(wheels),
\* or to its rejection message
CmdRead(t) ==
    /\ cmds[t].pc = "invoked"
    /\ LET h == Handle(cmds[t], wheels)
       IN cmds' = [cmds EXCEPT ![t].pc = IF h.ok THEN "set" ELSE "done",
                             ![t].local = h.map,
                             ![t].reply = h.reply]
    /\ UNCHANGED <<wheelVars, radioVars, stored0>>

\* wheels.set(wheels) takes effect, then the success message is sent
CmdWrite(t) ==
    /\ cmds[t].pc = "set"
    /\ wheels' = cmds[t].local
    /\ cmds' = [cmds EXCEPT ![t].pc = "done", ![t].ok = TRUE]
    /\ UNCHANGED <<wheel_images, img_cache, requests, task, radioVars, stored0>>

NextCmd == \E t \in CTasks : CmdRead(t) \/ CmdWrite(t)

(***************************************************************************)
(* Initial states: the stored configuration and the pending invocations.   *)
(***************************************************************************)
LabelLists == SeqsUpTo(Labels, MaxLabels)

Range(f) == {f[x] : x \in DOMAIN f}

\* label -> URL maps over the labels of one wheel
ImageMaps(labels) == UNION {[D -> URLs] : D \in SUBSET labels}

Invocations == {Invocation(name, frames, duration) :
                  name \in ArgNames, frames \in FrameArgs, duration \in Durations}

InitConfig ==
    /\ \E l \in LabelLists :
          /\ wheels = [w \in WheelNames |-> l]
          /\ \E m \in ImageMaps(Range(l)) : wheel_images = [w \in WheelNames |-> m]
    /\ img_cache = EmptyMap
    /\ requests = [u \in URLs |-> 0]

InitRadioIdle ==
    /\ search_cache = EmptyMap
    /\ radio = [t \in RTasks |-> IdleRadio]
    /\ last_good = EmptyMap

InitCmdIdle ==
    /\ cmds = [t \in CTasks |-> NoCmd]
    /\ stored0 = wheels

\* one spin at a time, any arguments
InitRender ==
    /\ InitConfig
    /\ \E inv \in Invocations : task = [t \in Tasks |-> IF t = "t1" THEN inv ELSE NoTask]
    /\ InitRadioIdle
    /\ InitCmdIdle

SpecRender == InitRender /\ [][NextWheel]_vars

\* two spins in flight on one PickerWheel instance, each of the smallest
\* valid frame count (two frames: a miss in frame 0 is a hit in frame 1)
InitConc ==
    /\ InitConfig
    /\ \E n1, n2 \in ArgNames :
          task = [t \in Tasks |->
                    Invocation(IF t = "t1" THEN n1 ELSE n2, 2, DefaultDuration)]
    /\ InitRadioIdle
    /\ InitCmdIdle

SpecConc == InitConc /\ [][NextWheel]_vars

\* a freshly loaded RadioBrowser cog; the wheel cog is idle
InitRadio ==
    /\ wheels = EmptyMap
    /\ wheel_images = EmptyMap
    /\ img_cache = EmptyMap
    /\ requests = [u \in URLs |-> 0]
    /\ task = [t \in Tasks |-> NoTask]
    /\ InitRadioIdle
    /\ InitCmdIdle

SpecRadio == InitRadio /\ [][NextRadio]_vars

StoredNames == {Lower(n) : n \in CmdNames}

\* the stored maps: some wheels exist, each with a short option list
StoredMaps == UNION {[D -> SeqsUpTo(Labels, MaxStored)] : D \in SUBSET StoredNames}

\* two mutation commands issued in one guild, both in flight
InitCmd ==
    /\ wheels \in StoredMaps
    /\ stored0 = wheels
    /\ wheel_images = EmptyMap
    /\ img_cache = EmptyMap
    /\ requests = [u \in URLs |-> 0]
    /\ task = [t \in Tasks |-> NoTask]
    /\ InitRadioIdle
    /\ cmds \in [CTasks -> Commands]

SpecCmd == InitCmd /\ [][NextCmd]_vars

(***************************************************************************)
(* Claims about the renderer, checked under SpecRender.                    *)
(***************************************************************************)
Abs(x) == IF x < 0 THEN -x ELSE x

\* the render of task t completed: spin posted the animation
Rendered(t) == task[t].pc = "done" /\ task[t].sent[1].file # <<>>

Gif(t) == task[t].sent[1].file[1]

\* the angle a, in ticks, is within one degree of the pointer, modulo a full turn
AtPointer(a, n, frames) ==
    Abs((a % (FullTurn * TicksPerDeg(n, frames))) - PointerDeg * TicksPerDeg(n, frames))
        <= TicksPerDeg(n, frames)

\* C1: in the final frame of a completed render (n >= 2, frames >= 2) the
\* midpoint of the winner's slice is at the pointer angle 270 (within one
\* degree), no other slice's midpoint is, and the winner spin announces is
\* the label of that slice.
C1_WinnerUnderPointer ==
    \A t \in Tasks :
        Rendered(t) /\ Len(task[t].opts) >= 2 /\ task[t].frames >= 2 =>
            LET r == task[t]
                n == Len(r.opts)
                last == Gif(t).imgs[Len(Gif(t).imgs)]
            IN /\ last.frame = r.frames - 1
               /\ \A i \in 1..Len(last.slices) :
                     AtPointer(last.slices[i].ang, n, r.frames) <=> i = r.winner_idx + 1
               /\ r.sent[1].winner = r.opts[r.winner_idx + 1]

C1_Witness ==
    \E t \in Tasks :
        /\ Rendered(t)
        /\ Len(task[t].opts) = 3
        /\ task[t].winner_idx = 2
        /\ Len(Gif(t).imgs) = 3

\* C2: the rotation offset never decreases from one frame to the next,
\* in every render, finished or suspended.
C2_OffsetMonotone ==
    \A t \in Tasks :
        \A f \in 1..(Len(task[t].imgs) - 1) :
            task[t].imgs[f].offset <= task[t].imgs[f + 1].offset

C2_Witness ==
    \E t \in Tasks :
        /\ Rendered(t)
        /\ Len(task[t].imgs) = 3
        /\ task[t].imgs[1].offset < task[t].imgs[2].offset
        /\ task[t].imgs[2].offset < task[t].imgs[3].offset

\* C3: a render that completes hands the encoder exactly `frames` frames,
\* frame f at position f, each 500 x 500.
C3_FrameCount ==
    \A t \in Tasks :
        Rendered(t) =>
            /\ Len(Gif(t).imgs) = task[t].frames
            /\ \A i \in 1..Len(Gif(t).imgs) :
                  /\ Gif(t).imgs[i].frame = i - 1
                  /\ Gif(t).imgs[i].size = <<500, 500>>
                  /\ Len(Gif(t).imgs[i].slices) = Len(task[t].opts)

C3_Witness ==
    \E t \in Tasks : Rendered(t) /\ task[t].frames = 3 /\ Len(task[t].opts) = 2

\* C4 (as claimed): a failed background-image fetch never aborts the render;
\* no exception from it leaves _make_wheel_gif.
C4_FetchFailureFallsBack ==
    \A t \in Tasks : ~(task[t].pc = "raised" /\ task[t].error = "ImageFetchFailure")

\* the arguments the renderer's contract excludes
InvalidInput(r) ==
    \/ r.name \in DOMAIN wheels /\ Len(wheels[r.name]) < 2
    \/ r.frames < 2
    \/ r.duration <= 0

\* C5 (as claimed): a spin with fewer than 2 labels, a frame count < 2 or a
\* duration <= 0 is rejected: it never draws a frame, it never suspends in a
\* fetch, and it ends with a report and no file (a rejection message, or an
\* error raised to the command framework before any output).
C5_InvalidInputRejected ==
    \A t \in Tasks :
        task[t].pc # "none" /\ task[t].name \in DOMAIN wheels /\ InvalidInput(task[t]) =>
            /\ task[t].imgs = <<>>
            /\ task[t].im = <<>>
            /\ task[t].pc # "fetch"
            /\ task[t].pc = "done" => task[t].sent[1].file = <<>>

\* the text the claim prescribes for a label
Truncated(opt) ==
    IF Len(opt) <= 12 THEN opt ELSE [i \in 1..13 |-> IF i <= 12 THEN opt[i] ELSE Ellipsis]

\* C7: every slice drawn carries its label verbatim when the label has at
\* most 12 characters and else its first 12 characters and one ellipsis;
\* the options of the render are the stored labels and the announced winner
\* is the stored label in full.
C7_LabelTruncation ==
    \A t \in Tasks :
        LET r == task[t] IN
        /\ \A f \in 1..Len(r.imgs) : \A i \in 1..Len(r.imgs[f].slices) :
              r.imgs[f].slices[i].label = Truncated(r.opts[i])
        /\ \A i \in 1..Len(r.im) : r.im[i].label = Truncated(r.opts[i])
        /\ r.pc \in {"render", "fetch", "raised"} \/ Rendered(t) =>
              /\ r.opts = wheels[r.name]
              /\ r.winner = wheels[r.name][r.winner_idx + 1]
        /\ Rendered(t) => r.sent[1].winner = wheels[r.name][r.winner_idx + 1]

C7_Witness ==
    \E t \in Tasks :
        /\ Rendered(t)
        /\ Len(task[t].winner) = 13
        /\ \E i \in 1..Len(task[t].opts) :
              /\ Len(task[t].opts[i]) = 13
              /\ Len(Gif(t).imgs[1].slices[i].label) = 13
              /\ Gif(t).imgs[1].slices[i].label[13] = Ellipsis
        /\ \E i \in 1..Len(task[t].opts) :
              /\ Len(task[t].opts[i]) = 12
              /\ Gif(t).imgs[1].slices[i].label = task[t].opts[i]

\* C8: frame 0 is drawn with offset exactly 0, and the final frame's offset
\* is 3 full turns plus a remainder in [0, 360).
C8_OffsetEnds ==
    \A t \in Tasks :
        LET r == task[t]
            turn == FullTurn * TicksPerDeg(Len(r.opts), r.frames)
        IN /\ Len(r.imgs) >= 1 => r.imgs[1].offset = 0
           /\ Len(r.imgs) >= 1 /\ Len(r.imgs) = r.frames =>
                 /\ r.imgs[r.frames].offset >= 3 * turn
                 /\ r.imgs[r.frames].offset < 4 * turn

C8_Witness ==
    \E t \in Tasks :
        /\ Rendered(t)
        /\ Len(task[t].opts) = 3
        /\ task[t].winner_idx = 2
        /\ task[t].imgs[task[t].frames].offset
              > 3 * FullTurn * TicksPerDeg(3, task[t].frames)

(***************************************************************************)
(* Claims about the image cache, checked under SpecConc.                   *)
(***************************************************************************)
\* C6 (as claimed): at most one HTTP request is ever issued per URL.
C6_OneRequestPerURL == \A u \in URLs : requests[u] <= 1

\* C6 (amended): once a URL's image is in the cache it stays there and no
\* _fetch_image call issues a request for that URL any more.
C6_NoRequestOnceCached ==
    [][\A u \in URLs :
          u \in DOMAIN img_cache =>
             /\ requests'[u] = requests[u]
             /\ u \in DOMAIN img_cache'
             /\ img_cache'[u] = img_cache[u]]_vars

\* both spins drew a slice from u1's image, and u1 was requested once
C6_Witness ==
    /\ requests["u1"] = 1
    /\ \A t \in Tasks :
          /\ Rendered(t)
          /\ \E f \in 1..Len(Gif(t).imgs) : \E i \in 1..Len(Gif(t).imgs[f].slices) :
                Gif(t).imgs[f].slices[i].fill = Img("u1")

(***************************************************************************)
(* Claims about RadioBrowser, checked under SpecRadio.                     *)
(***************************************************************************)
\* C9: every user's cached list is the data of that user's last search that
\* returned stations, and radio pick <number> answers with entry number-1 of
\* that list when 1 <= number <= its length and with an error message and no
\* station otherwise.
C9_PickFromOwnLastSearch ==
    [][/\ search_cache' = last_good'
       /\ \A t \in RTasks :
             radio'[t] # radio[t] /\ radio'[t].cmd = "pick" =>
                LET r == radio'[t] IN
                IF /\ r.user \in DOMAIN last_good
                   /\ 1 <= r.number
                   /\ r.number <= Len(last_good[r.user])
                THEN r.reply = "Station" /\ r.station = last_good[r.user][r.number]
                ELSE /\ r.reply \in {"You have no recent search", "Pick a number between"}
                     /\ r.station = None]_vars

\* alice picked the second entry of her own list while bob's list differs
C9_Witness ==
    \E t \in RTasks :
        /\ radio[t].cmd = "pick"
        /\ radio[t].user = "alice"
        /\ radio[t].number = 2
        /\ radio[t].reply = "Station"
        /\ "bob" \in DOMAIN search_cache
        /\ "alice" \in DOMAIN search_cache
        /\ search_cache["bob"] # search_cache["alice"]
        /\ radio[t].station = search_cache["alice"][2]

ErrorReplies == {"Could not reach Radio Browser API", "Could not fetch a random station"}

\* the order of the contacts: primary first, fallback only after the primary
\* failed, nothing after the first endpoint that answered 200 with JSON
ContactOrder(r) ==
    /\ r.contacted # <<>> => r.contacted[1] = API_BASE
    /\ Len(r.contacted) <= 2
    /\ Len(r.contacted) = 2 =>
          /\ r.contacted[2] = WS_BASE
          /\ r.failed # <<>>
          /\ r.failed[1] = API_BASE
    /\ r.answered # <<>> =>
          /\ r.pc = "done"
          /\ r.answered[1].base = r.contacted[Len(r.contacted)]
          /\ \A k \in DOMAIN r.failed : r.failed[k] # r.answered[1].base

\* C10 (as claimed): the error message is sent only when both endpoints failed.
C10_ErrorOnlyWhenBothFailed ==
    \A t \in RTasks :
        /\ ContactOrder(radio[t])
        /\ radio[t].reply \in ErrorReplies => radio[t].failed = <<API_BASE, WS_BASE>>

\* C10 (amended): the contacts are ordered as claimed, and the error message
\* is sent when both endpoints failed or when the endpoint that answered
\* returned JSON null (search) or a null or empty JSON value (random).
C10_ErrorWhenFailedOrEmpty ==
    \A t \in RTasks :
        /\ ContactOrder(radio[t])
        /\ radio[t].reply = "Could not reach Radio Browser API" =>
              \/ radio[t].failed = <<API_BASE, WS_BASE>>
              \/ radio[t].answered # <<>> /\ radio[t].answered[1].null
        /\ radio[t].reply = "Could not fetch a random station" =>
              \/ radio[t].failed = <<API_BASE, WS_BASE>>
              \/ radio[t].answered # <<>> /\ radio[t].answered[1].falsy
        /\ radio[t].pc = "done" /\ radio[t].failed = <<API_BASE, WS_BASE>> =>
              radio[t].reply \in ErrorReplies

\* the primary failed, the fallback answered, and the results were sent
C10_Witness ==
    \E t \in RTasks :
        /\ radio[t].pc = "done"
        /\ radio[t].cmd = "search"
        /\ radio[t].contacted = <<API_BASE, WS_BASE>>
        /\ radio[t].failed = <<API_BASE>>
        /\ radio[t].answered # <<>>
        /\ radio[t].reply = "Results"

(***************************************************************************)
(* Claims about the wheel mutation commands, checked under SpecCmd.        *)
(***************************************************************************)
\* the commands that replied with a success message
Acked == {t \in CTasks : cmds[t].pc = "done" /\ cmds[t].ok}

\* the orders in which the commands of S can be run one after the other
Orders(S) == {o \in [1..Cardinality(S) -> S] : \A i, j \in 1..Cardinality(S) : i # j => o[i] # o[j]}

\* the map after the commands of order o ran one at a time from k on, each
\* on the map the one before left (a command whose change is already there
\* or no longer applies leaves the map as it is)
RECURSIVE RunInOrder(_, _, _)
RunInOrder(o, k, m) ==
    IF k > Len(o) THEN m
    ELSE RunInOrder(o, k + 1, Handle(cmds[o[k]], m).map)

\* C11 (as claimed): once all commands have finished, the stored wheels map
\* reflects every command that replied with a success message: it is the
\* map that running those commands one after the other, in some order, on
\* the map stored before leaves.
C11_NoAcknowledgedMutationLost ==
    (\A t \in CTasks : cmds[t].pc = "done") =>
        \E o \in Orders(Acked) : RunInOrder(o, 1, stored0) = wheels

====
